---- MODULE Spec2Model ----
(***************************************************************************)
(* Model of job.py: the Torque accounting parser.  main() reads the        *)
(* accounting lines into `entries`, sorts them, dispatches every entry to  *)
(* the Job record of its job identifier (Job.update / Job.parse), sorts    *)
(* the job list and aggregates node usage and user billing.                *)
(*                                                                         *)
(* Representation of text:                                                 *)
(*  - a timestamp field is the integer calendar.timegm() gives for it;     *)
(*  - a message (4th field) is an index into Messages, the messages of the *)
(*    model listed in ascending order of their text, so that comparing two *)
(*    indices is comparing the two texts; JobDict gives the dictionary     *)
(*    that lines 92-104 build from the text;                               *)
(*  - exec_host is the list re.split('[/+]', ...) gives, a duration is the *)
(*    list split(':') gives, both as lists of strings; int() of a string   *)
(*    is IntOf, defined on the decimal strings only;                       *)
(*  - the text of ctime, qtime, etime, start, end and Exit_status is       *)
(*    represented by the number it spells.                                 *)
(***************************************************************************)
EXTENDS Integers, Sequences, FiniteSets, TLC

\* ------------------------------------------------------------------ bounds
\* number of accounting lines in the input file(s)
MaxLines == 3

\* ------------------------------------------------------- python primitives
\* d.get(k, default)
Get(d, k, default) == IF k \in DOMAIN d THEN d[k] ELSE default

\* d[k] = v
DictSet(d, k, v) == [x \in DOMAIN d \cup {k} |-> IF x = k THEN v ELSE d[x]]

\* the strings int() accepts, with their value; int() of any other string
\* raises ValueError
IntOf ==
  [s \in {"0", "1", "2", "3", "00", "01", "02", "03", "10", "12", "40", "50"} |->
     CASE s \in {"0", "00"} -> 0
       [] s \in {"1", "01"} -> 1
       [] s \in {"2", "02"} -> 2
       [] s \in {"3", "03"} -> 3
       [] s = "10" -> 10
       [] s = "12" -> 12
       [] s = "40" -> 40
       [] s = "50" -> 50]

IsInt(s) == s \in DOMAIN IntOf

\* list(filter(None, l)) on a list of strings
FilterNone(l) == SelectSeq(l, LAMBDA x : x # "")

\* l[::2]: the elements at the even (0-based) positions
EvenSlice(l) == [k \in 1..((Len(l) + 1) \div 2) |-> l[2 * k - 1]]

\* Counter(l): element -> number of occurrences in the list
Counter(l) ==
  [x \in {l[k] : k \in DOMAIN l} |-> Cardinality({k \in DOMAIN l : l[k] = x})]

Max(a, b) == IF a >= b THEN a ELSE b

RECURSIVE Pow60(_)
Pow60(i) == IF i = 0 THEN 1 ELSE 60 * Pow60(i - 1)

\* hms2sec can be evaluated: int(x) succeeds for every component
HmsOk(hms) == \A k \in DOMAIN hms : IsInt(hms[k])

\* sum(int(x) * 60 ** i for i, x in enumerate(reversed(hms.split(':'))))
RECURSIVE HmsSum(_, _)
HmsSum(hms, k) ==
  IF k > Len(hms) THEN 0
  ELSE IntOf[hms[k]] * Pow60(Len(hms) - k) + HmsSum(hms, k + 1)

hms2sec(hms) == HmsSum(hms, 1)

\* what '<num><unit>'.rstrip('kb') leaves of the unit: rstrip removes the
\* trailing characters that are 'k' or 'b'
UnitRest == [u \in {"", "b", "kb", "mb", "gb"} |->
               CASE u \in {"", "b", "kb"} -> ""
                 [] u = "mb" -> "m"
                 [] u = "gb" -> "g"]

\* mem.rstrip('kb') for mem = <num><unit>
RstripKb(mem) == mem.num \o UnitRest[mem.unit]

\* ----------------------------------------------------------------- messages
\* The messages (4th field of a line) of the model, in ascending order of
\* their text.  Common part of the job records, written <rec> below:
\*   group=g1 queue=batch start=1
\*  1 MEmpty        (empty)
\*  2 MQueue        queue=batch
\*  3 MDelete       requestor=u1@m
\*  4 MStartDup     user=u1 <rec> owner=u1@m exec_host=nodeA/0++nodeA/0+nodeB/1
\*                  total_execution_slots=3
\*  5 MEnd          user=u1 <rec> owner=u1@m exec_host=nodeA/0+nodeA/1+nodeB/0
\*                  total_execution_slots=3 end=2 Exit_status=0
\*                  resources_used.cput=00:00:50 resources_used.mem=12kb
\*                  resources_used.walltime=00:01:40
\*  6 MEndBadWall   as MEnd, with resources_used.walltime=00:01:4x
\*  7 MStartBadSlot user=u1 <rec> owner=u1@m exec_host=nodeA/0-1
\*                  total_execution_slots=2
\*  8 MStart        user=u1 <rec> owner=u1@m exec_host=nodeA/2
\*                  total_execution_slots=1
\*  9 MNoSlot       user=u1 <rec> owner=u1@m exec_host=nodeB
\*                  total_execution_slots=1
\* 10 MEnd2         user=u2 <rec> owner=u2@m exec_host=nodeA/2
\*                  total_execution_slots=1 end=2 Exit_status=1
\*                  resources_used.cput=00:00:10 resources_used.mem=12kb
\*                  resources_used.walltime=00:00:10
MEmpty == 1
MQueue == 2
MDelete == 3
MStartDup == 4
MEnd == 5
MEndBadWall == 6
MStartBadSlot == 7
MStart == 8
MNoSlot == 9
MEnd2 == 10

RecCommon(u) ==
  "user" :> u @@ "group" :> "g1" @@ "queue" :> "batch" @@ "start" :> 1
  @@ "owner" :> (u \o "@m")

EndCommon ==
  RecCommon("u1") @@ "exec_host" :> <<"nodeA", "0", "nodeA", "1", "nodeB", "0">>
  @@ "total_execution_slots" :> "3" @@ "end" :> 2 @@ "Exit_status" :> 0
  @@ "resources_used.cput" :> <<"00", "00", "50">>
  @@ "resources_used.mem" :> [num |-> "12", unit |-> "kb"]

\* jobdict = dict(zip(prop, val)) of each message
JobDict ==
  << <<>>,
     "queue" :> "batch",
     "requestor" :> "u1@m",
     RecCommon("u1")
       @@ "exec_host" :> <<"nodeA", "0", "", "nodeA", "0", "nodeB", "1">>
       @@ "total_execution_slots" :> "3",
     EndCommon @@ "resources_used.walltime" :> <<"00", "01", "40">>,
     EndCommon @@ "resources_used.walltime" :> <<"00", "01", "4x">>,
     RecCommon("u1") @@ "exec_host" :> <<"nodeA", "0-1">>
       @@ "total_execution_slots" :> "2",
     RecCommon("u1") @@ "exec_host" :> <<"nodeA", "2">>
       @@ "total_execution_slots" :> "1",
     RecCommon("u1") @@ "exec_host" :> <<"nodeB">>
       @@ "total_execution_slots" :> "1",
     RecCommon("u2") @@ "exec_host" :> <<"nodeA", "2">>
       @@ "total_execution_slots" :> "1" @@ "end" :> 2 @@ "Exit_status" :> 1
       @@ "resources_used.cput" :> <<"00", "00", "10">>
       @@ "resources_used.mem" :> [num |-> "12", unit |-> "kb"]
       @@ "resources_used.walltime" :> <<"00", "00", "10">> >>

\* -------------------------------------------------------------------- lines
\* timestamps of the lines (a start entry of job 1.m may also carry 3)
Times == {1, 2}

\* A line of an accounting file, split on ';': n fields; tsok says that
\* time.strptime accepts field 0 (it does not when the field carries the line
\* terminator, as in a terminated line of one field); code, id, msg are fields
\* 1, 2, 3, "" or MEmpty where the line has no such field.
Line(n, ts, tsok, code, id, msg) ==
  [n |-> n, ts |-> ts, tsok |-> tsok, code |-> code, id |-> id, msg |-> msg]

Lines ==
  {Line(4, t, TRUE, "Q", "1.m", MQueue) : t \in Times}
    \cup {Line(4, t, TRUE, "S", "1.m", MStart) : t \in {1, 3}}
    \cup {Line(4, t, TRUE, "E", "1.m", MEnd) : t \in Times}
    \cup {Line(4, 1, TRUE, "D", "1.m", MDelete),
          Line(4, 1, TRUE, "A", "1.m", MEmpty),
          Line(4, 1, TRUE, "C", "1.m", MEmpty),
          Line(4, 1, TRUE, "T", "1.m", MEmpty),
          Line(4, 1, TRUE, "S", "1.m", MStartDup),
          Line(4, 1, TRUE, "S", "2.m", MStart),
          Line(4, 1, TRUE, "E", "2.m", MEnd2)}
    \cup {Line(4, 2, TRUE, "E", "1.m", MEndBadWall),
          Line(4, 1, TRUE, "S", "1.m", MStartBadSlot),
          Line(4, 2, TRUE, "E", "1.m", MNoSlot),
          Line(4, 1, TRUE, "L", "license", MEmpty),
          Line(1, 1, TRUE, "", "", MEmpty),
          Line(1, 1, FALSE, "", "", MEmpty),
          Line(2, 1, TRUE, "E", "", MEmpty),
          Line(2, 1, TRUE, "E\n", "", MEmpty)}

\* position of a status field and of a job identifier in the order of
\* Python's string comparison
CodeRank ==
  [c \in {"A", "C", "D", "E", "E\n", "L", "Q", "R", "S", "T"} |->
     CASE c = "A" -> 1 [] c = "C" -> 2 [] c = "D" -> 3 [] c = "E" -> 4
       [] c = "E\n" -> 5 [] c = "L" -> 6 [] c = "Q" -> 7 [] c = "R" -> 8
       [] c = "S" -> 9 [] c = "T" -> 10]

IdRank == [s \in {"1.m", "2.m", "license"} |->
             CASE s = "1.m" -> 1 [] s = "2.m" -> 2 [] s = "license" -> 3]

\* ------------------------------------------------------------------ entries
\* An element of `entries`: the list [timestamp, *entry[1:]] of n elements.
\* seq is the position of the line in the input; the program does not read it.
EntryOf(line, seq) ==
  [n |-> line.n, ts |-> line.ts, code |-> line.code, id |-> line.id,
   msg |-> line.msg, seq |-> seq]

\* the list an entry is, its strings replaced by their ranks
EntryList(e) ==
  <<e.ts>> \o (IF e.n >= 2 THEN <<CodeRank[e.code]>> ELSE <<>>)
           \o (IF e.n >= 3 THEN <<IdRank[e.id]>> ELSE <<>>)
           \o (IF e.n >= 4 THEN <<e.msg>> ELSE <<>>)

\* a < b for two lists: decided by the first position where they differ,
\* else by their lengths
ListLess(a, b) ==
  \/ \E k \in 1..Len(a) :
       /\ k <= Len(b)
       /\ \A m \in 1..(k - 1) : a[m] = b[m]
       /\ a[k] < b[k]
  \/ /\ Len(a) < Len(b)
     /\ \A m \in 1..Len(a) : a[m] = b[m]

\* entries are compared as lists
EntryLess(a, b) == ListLess(EntryList(a), EntryList(b))

\* list.sort() is stable: an element goes after the elements not greater than
\* it, that is before the first of the positions pos of the greater ones
InsertBefore(e, s, pos) ==
  LET at == IF pos = {} THEN Len(s) + 1
            ELSE CHOOSE k \in pos : \A m \in pos : k <= m
  IN  SubSeq(s, 1, at - 1) \o <<e>> \o SubSeq(s, at, Len(s))

\* as SortEntries, the entries left in the order of the input
SortEntries_Unsorted(s) == s

\* entries.sort()
RECURSIVE SortEntries(_)
SortEntries(s) ==
  IF s = <<>> THEN <<>>
  ELSE LET e == s[Len(s)]
           t == SortEntries(SubSeq(s, 1, Len(s) - 1))
       IN  InsertBefore(e, t, {k \in 1..Len(t) : EntryLess(e, t[k])})

\* ---------------------------------------------------------------- class Job
\* the strings Job.__init__ gives rucputime, ruwalltime ('00:00:00') and
\* rumemory ('0kb'); parse replaces them by numbers, which are never negative
Str000000 == -1
Str0kb == -2

\* Job.__init__
NewJob ==
  [timestamp |-> 0, jobid |-> "", user |-> "", group |-> "", status |-> "",
   statuslog |-> <<>>, statusstring |-> "", exitcode |-> 0, owner |-> "",
   queue |-> "", ctime |-> 0, qtime |-> 0, etime |-> 0, start |-> 0,
   end |-> 0, nodes |-> <<>>, reqcpus |-> 0, reqnodes |-> 0,
   rucputime |-> Str000000, rumemory |-> Str0kb, ruwalltime |-> Str000000,
   usage |-> <<>>, maxslot |-> <<>>]

\* the outcome of a call: the record as the call leaves it and the exception
\* it raises, "" when it returns
Outcome(job, exc) == [job |-> job, exc |-> exc]

\* message = ''.join(entry[3:])
MsgOf(entry) == IF entry.n >= 4 THEN entry.msg ELSE MEmpty

\* Job.parse, the try block: an entry too short leaves the later fields alone
ParseHead(job, entry) ==
  [job EXCEPT !.timestamp = entry.ts,
              !.status = IF entry.n >= 2 THEN entry.code ELSE @,
              !.jobid = IF entry.n >= 3 THEN entry.id ELSE @]

\* Job.parse, the fields copied from jobdict
ParseProps(job, jobdict) ==
  [job EXCEPT !.user = Get(jobdict, "user", ""),
              !.group = Get(jobdict, "group", ""),
              !.exitcode = Get(jobdict, "Exit_status", 0),
              !.owner = IF job.status = "D" THEN Get(jobdict, "requestor", "")
                        ELSE Get(jobdict, "owner", ""),
              !.queue = Get(jobdict, "queue", ""),
              !.ctime = Get(jobdict, "ctime", 0),
              !.qtime = Get(jobdict, "qtime", 0),
              !.etime = Get(jobdict, "etime", 0),
              !.start = Get(jobdict, "start", 0),
              !.end = Get(jobdict, "end", 0)]

\* Job.parse, the list `nodes`: exec_host split on '/' and '+', without ''
NodeList(jobdict) == FilterNone(Get(jobdict, "exec_host", <<"">>))

\* Job.parse, the loop over enumerate(nodes[::2]) from its i-th round on:
\* nodes[2*i+1] raises IndexError past the end of the list and int() raises
\* ValueError; the rounds before the failing one have updated maxslot
RECURSIVE MaxslotLoop(_, _, _)
MaxslotLoop(maxslot, nodes, i) ==
  IF i > Len(EvenSlice(nodes)) THEN [maxslot |-> maxslot, exc |-> ""]
  ELSE IF 2 * i > Len(nodes) THEN [maxslot |-> maxslot, exc |-> "IndexError"]
  ELSE IF ~IsInt(nodes[2 * i]) THEN [maxslot |-> maxslot, exc |-> "ValueError"]
  ELSE LET n == nodes[2 * i - 1]
           v == IntOf[nodes[2 * i]]
       IN  MaxslotLoop(DictSet(maxslot, n,
                               IF n \in DOMAIN maxslot THEN Max(maxslot[n], v)
                               ELSE v),
                       nodes, i + 1)

\* ParseUsage without the test of the status: every parse computes the usage
ParseUsage_AnyStatus(job) ==
  [job EXCEPT !.usage = [k \in DOMAIN job.nodes |->
                           job.nodes[k] * job.ruwalltime]]

\* Job.parse: the node usage computed when the status is 'E'
ParseUsage(job) ==
  IF job.status = "E"
  THEN [job EXCEPT !.usage = [k \in DOMAIN job.nodes |->
                                job.nodes[k] * job.ruwalltime]]
  ELSE job

\* Job.parse, from total_execution_slots on; every conversion may raise
\* ValueError, which leaves the fields assigned before it
ParseResources(job, jobdict) ==
  LET slots == Get(jobdict, "total_execution_slots", "0")
      cput  == Get(jobdict, "resources_used.cput", <<"00", "00", "00">>)
      mem   == RstripKb(Get(jobdict, "resources_used.mem",
                            [num |-> "0", unit |-> "kb"]))
      wall  == Get(jobdict, "resources_used.walltime", <<"00", "00", "00">>)
  IN  IF ~IsInt(slots) THEN Outcome(job, "ValueError")
      ELSE LET j1 == [job EXCEPT !.reqcpus = IntOf[slots],
                                 !.reqnodes = Cardinality(DOMAIN job.nodes)]
           IN  IF ~HmsOk(cput) THEN Outcome(j1, "ValueError")
               ELSE LET j2 == [j1 EXCEPT !.rucputime = hms2sec(cput)]
                    IN  IF ~IsInt(mem) THEN Outcome(j2, "ValueError")
                        ELSE LET j3 == [j2 EXCEPT !.rumemory = IntOf[mem]]
                             IN  IF ~HmsOk(wall) THEN Outcome(j3, "ValueError")
                                 ELSE Outcome(ParseUsage(
                                        [j3 EXCEPT !.ruwalltime = hms2sec(wall)]),
                                        "")

\* Job.parse
parse(job, entry) ==
  LET jobdict == JobDict[MsgOf(entry)]
      nodes   == NodeList(jobdict)
      j1      == [ParseProps(ParseHead(job, entry), jobdict)
                    EXCEPT !.nodes = Counter(EvenSlice(nodes))]
      loop    == MaxslotLoop(j1.maxslot, nodes, 1)
      j2      == [j1 EXCEPT !.maxslot = loop.maxslot]
  IN  IF loop.exc # "" THEN Outcome(j2, loop.exc)
      ELSE ParseResources(j2, jobdict)

\* the first lines of Job.update: the event is registered
Register(job, entry) ==
  [job EXCEPT !.statuslog = DictSet(@, entry.ts, entry.code),
              !.statusstring = @ \o entry.code]

\* Job.update without the return for a job that has exited
update_NoEndedReturn(job, entry) ==
  LET j1 == Register(job, entry)
  IN  IF j1.status = "S" /\ entry.code = "Q" THEN Outcome(j1, "")
      ELSE parse(j1, entry)

\* Job.update without the return for 'Q' arriving at a started job
update_NoStartedReturn(job, entry) ==
  LET j1 == Register(job, entry)
  IN  IF j1.status = "E" THEN Outcome(j1, "")
      ELSE parse(j1, entry)

\* Job.update returning for a deleted or aborted job as for one that exited
update_DeletedAbortedReturn(job, entry) ==
  LET j1 == Register(job, entry)
  IN  IF j1.status \in {"E", "D", "A"} THEN Outcome(j1, "")
      ELSE IF j1.status = "S" /\ entry.code = "Q" THEN Outcome(j1, "")
      ELSE parse(j1, entry)

\* Job.update
update(job, entry) ==
  LET j1 == Register(job, entry)
  IN  IF j1.status = "E" THEN Outcome(j1, "")
      ELSE IF j1.status = "S" /\ entry.code = "Q" THEN Outcome(j1, "")
      ELSE parse(j1, entry)

\* --------------------------------------------------------------------- main
VARIABLES
  full,        \* args.full
  nread,       \* number of lines read from the accounting file(s)
  line,        \* the line of the last round of the loop over the lines
  entries,     \* the list entries
  pc,          \* where main is: "read", "dispatch", "nodes", "users", "done",
               \* or the exception that ended the run
  i,           \* position in entries of the next entry of the dispatch loop
  torquejobs,  \* job identifier -> index into joblist (from 0)
  joblist,     \* the list of Job records
  njobs,       \* index of the last record of joblist
  nodeusage,   \* node -> reserved core-seconds
  userdict,    \* user -> Users record
  billing      \* the rows written to the users file, before format(x, '.2f')

vars == <<full, nread, line, entries, pc, i, torquejobs, joblist, njobs, nodeusage,
          userdict, billing>>

\* the value of `line` before the first line is read
NoLine == Line(0, 0, TRUE, "", "", MEmpty)

Init ==
  /\ full \in BOOLEAN
  /\ nread = 0
  /\ line = NoLine
  /\ entries = <<>>
  /\ pc = "read"
  /\ i = 1
  /\ torquejobs = <<>>
  /\ joblist = <<>>
  /\ njobs = -1
  /\ nodeusage = <<>>
  /\ userdict = <<>>
  /\ billing = <<>>

\* as ReadOutcome, without the test of args.full and entry[1]
ReadOutcome_NoFilter(l) ==
  IF ~l.tsok THEN "ValueError" ELSE "append"

\* what reading a line does: the exception it raises, else whether the line
\* is appended to entries
ReadOutcome(l) ==
  IF ~l.tsok THEN "ValueError"
  ELSE IF ~full /\ l.n < 2 THEN "IndexError"
  ELSE IF ~full /\ l.code # "E" THEN "continue"
  ELSE "append"

\* one round of the loop over the lines of the accounting file(s)
ReadLine ==
  /\ pc = "read"
  /\ nread < MaxLines
  /\ \E l \in Lines :
       LET out == ReadOutcome(l)
       IN  /\ nread' = nread + 1
           /\ line' = l
           /\ entries' = IF out = "append"
                         THEN Append(entries, EntryOf(l, nread + 1))
                         ELSE entries
           /\ pc' = IF out \in {"ValueError", "IndexError"} THEN out ELSE "read"
  /\ UNCHANGED <<full, i, torquejobs, joblist, njobs, nodeusage, userdict, billing>>

\* end of the input: entries.sort()
Sort ==
  /\ pc = "read"
  /\ entries' = SortEntries(entries)
  /\ pc' = "dispatch"
  /\ UNCHANGED <<full, nread, line, i, torquejobs, joblist, njobs, nodeusage,
                 userdict, billing>>

\* as Dispatched, without the skip of line 233
Dispatched_NoSkip(entry) == entry.n >= 3

\* the entry reaches Job.update: it has a job identifier (entry[2] does not
\* raise IndexError) and is no licensing, checkpoint or continue entry
Dispatched(entry) == entry.n >= 3 /\ entry.code \notin {"L", "C", "T"}

\* as Dispatch, a new record made for every entry that reaches Job.update
Dispatch_AlwaysNew ==
  /\ pc = "dispatch"
  /\ i <= Len(entries)
  /\ LET entry == entries[i]
         jl    == Append(joblist, NewJob)
         tj    == DictSet(torquejobs, entry.id, njobs + 1)
         out   == update(jl[tj[entry.id] + 1], entry)
     IN  IF ~Dispatched(entry)
         THEN /\ i' = i + 1
              /\ UNCHANGED <<pc, torquejobs, joblist, njobs>>
         ELSE /\ njobs' = njobs + 1
              /\ torquejobs' = tj
              /\ joblist' = [jl EXCEPT ![tj[entry.id] + 1] = out.job]
              /\ pc' = IF out.exc = "ValueError" THEN "ValueError" ELSE pc
              /\ i' = IF out.exc = "ValueError" THEN i ELSE i + 1
  /\ UNCHANGED <<full, nread, line, entries, nodeusage, userdict, billing>>

\* one round of the loop over the sorted entries
Dispatch ==
  /\ pc = "dispatch"
  /\ i <= Len(entries)
  /\ LET entry == entries[i]
         isnew == entry.id \notin DOMAIN torquejobs
         jl    == IF isnew THEN Append(joblist, NewJob) ELSE joblist
         tj    == IF isnew THEN DictSet(torquejobs, entry.id, njobs + 1)
                  ELSE torquejobs
         out   == update(jl[tj[entry.id] + 1], entry)
     IN  IF ~Dispatched(entry)
         THEN /\ i' = i + 1
              /\ UNCHANGED <<pc, torquejobs, joblist, njobs>>
         ELSE /\ njobs' = IF isnew THEN njobs + 1 ELSE njobs
              /\ torquejobs' = tj
              /\ joblist' = [jl EXCEPT ![tj[entry.id] + 1] = out.job]
              /\ pc' = IF out.exc = "ValueError" THEN "ValueError" ELSE pc
              /\ i' = IF out.exc = "ValueError" THEN i ELSE i + 1
  /\ UNCHANGED <<full, nread, line, entries, nodeusage, userdict, billing>>

JobLess(a, b) == a.timestamp < b.timestamp

\* joblist.sort(key=lambda j: j.timestamp)
RECURSIVE SortJobs(_)
SortJobs(s) ==
  IF s = <<>> THEN <<>>
  ELSE LET e == s[Len(s)]
           t == SortJobs(SubSeq(s, 1, Len(s) - 1))
       IN  InsertBefore(e, t, {k \in 1..Len(t) : JobLess(e, t[k])})

\* after the loop: the job list is sorted on timestamp (masternode and the
\* core counts of the nodes are read from the files of args.directory)
SortJoblist ==
  /\ pc = "dispatch"
  /\ i > Len(entries)
  /\ joblist' = SortJobs(joblist)
  /\ pc' = "nodes"
  /\ UNCHANGED <<full, nread, line, entries, i, torquejobs, njobs, nodeusage,
                 userdict, billing>>

\* Counter.update: the counts of d added to those of c
CounterUpdate(c, d) ==
  [k \in DOMAIN c \cup DOMAIN d |-> Get(c, k, 0) + Get(d, k, 0)]

\* nodeusage after the usage of the first n jobs has been added
RECURSIVE NodeUsageOf(_, _)
NodeUsageOf(jl, n) ==
  IF n = 1 THEN jl[1].usage
  ELSE CounterUpdate(NodeUsageOf(jl, n - 1), jl[n].usage)

\* the node usage block: joblist[0] raises IndexError on an empty job list
NodeUsage ==
  /\ pc = "nodes"
  /\ IF joblist = <<>>
     THEN /\ pc' = "IndexError"
          /\ UNCHANGED nodeusage
     ELSE /\ nodeusage' = NodeUsageOf(joblist, Len(joblist))
          /\ pc' = "users"
  /\ UNCHANGED <<full, nread, line, entries, i, torquejobs, joblist, njobs, userdict,
                 billing>>

\* as UsersAdd, the record of a user replaced by each of the user's jobs
UsersAdd_Overwrite(ud, job) ==
  DictSet(ud, job.user,
          [user |-> job.user, usedcpuseconds |-> job.rucputime,
           reqcpuseconds |-> job.reqcpus * job.ruwalltime])

\* Users.__init__ and Users.update
UsersAdd(ud, job) ==
  LET u == job.rucputime
      r == job.reqcpus * job.ruwalltime
  IN  DictSet(ud, job.user,
              IF job.user \notin DOMAIN ud
              THEN [user |-> job.user, usedcpuseconds |-> u, reqcpuseconds |-> r]
              ELSE [ud[job.user] EXCEPT !.usedcpuseconds = @ + u,
                                        !.reqcpuseconds = @ + r])

\* userdict after the first n jobs
RECURSIVE UserDictOf(_, _)
UserDictOf(jl, n) ==
  IF n = 0 THEN <<>> ELSE UsersAdd(UserDictOf(jl, n - 1), jl[n])

\* the keys of userdict in the order of their insertion: the users of the
\* first n jobs in the order of their first job
RECURSIVE UserKeys(_, _)
UserKeys(jl, n) ==
  IF n = 0 THEN <<>>
  ELSE LET t == UserKeys(jl, n - 1)
       IN  IF \E k \in 1..Len(t) : t[k] = jl[n].user THEN t
           ELSE Append(t, jl[n].user)

\* sorted(userdict.items(), key=usedcpuseconds, reverse=True): the keys, most
\* used cpu seconds first, equal ones in the order they have in keys
RECURSIVE SortUsers(_, _)
SortUsers(ud, keys) ==
  IF keys = <<>> THEN <<>>
  ELSE LET e == keys[Len(keys)]
           t == SortUsers(ud, SubSeq(keys, 1, Len(keys) - 1))
       IN  InsertBefore(e, t, {k \in 1..Len(t) :
                                 ud[t[k]].usedcpuseconds < ud[e].usedcpuseconds})

\* 100 * u/r if r > 0 else 0, the quotient as the fraction num/den
PctParallel(u, r) ==
  IF r > 0 THEN [num |-> 100 * u, den |-> r] ELSE [num |-> 0, den |-> 1]

\* the row of user k: its columns as fractions, not yet formatted
BillingRow(ud, k) ==
  [user |-> k,
   usedcpuhours |-> [num |-> ud[k].usedcpuseconds, den |-> 3600],
   reqcpuhours |-> [num |-> ud[k].reqcpuseconds, den |-> 3600],
   pct |-> PctParallel(ud[k].usedcpuseconds, ud[k].reqcpuseconds)]

\* the users block: a record that no parse completed for still has the
\* strings of Job.__init__, and the division of the billing line raises
\* TypeError on them
UserBilling ==
  /\ pc = "users"
  /\ IF \E k \in DOMAIN joblist : joblist[k].rucputime = Str000000
     THEN /\ pc' = "TypeError"
          /\ UNCHANGED <<userdict, billing>>
     ELSE LET ud == UserDictOf(joblist, Len(joblist))
              sorteduser == SortUsers(ud, UserKeys(joblist, Len(joblist)))
          IN  /\ userdict' = ud
              /\ billing' = [k \in DOMAIN sorteduser |->
                               BillingRow(ud, sorteduser[k])]
              /\ pc' = "done"
  /\ UNCHANGED <<full, nread, line, entries, i, torquejobs, joblist, njobs, nodeusage>>

Next ==
  \/ ReadLine
  \/ Sort
  \/ Dispatch
  \/ SortJoblist
  \/ NodeUsage
  \/ UserBilling

Spec == Init /\ [][Next]_vars

\* ------------------------------------------------------------------- claims
\* the fields of a record other than the history
NonHistory(job) ==
  [f \in DOMAIN job \ {"statuslog", "statusstring"} |-> job[f]]

\* the fields of a record other than the history and the status
Resources(job) ==
  [f \in DOMAIN job \ {"statuslog", "statusstring", "status"} |-> job[f]]

\* the dispatch loop is about to handle entries[i]
AtEntry == pc = "dispatch" /\ i <= Len(entries)

\* ... and entries[i] reaches Job.update
AtUpdate == AtEntry /\ Dispatched(entries[i])

\* position in joblist (from 1) of the record entries[i] is dispatched to,
\* and the record as it is before the call (a new one on first sighting)
TargetIndex ==
  IF entries[i].id \in DOMAIN torquejobs THEN torquejobs[entries[i].id] + 1
  ELSE Len(joblist) + 1

TargetJob ==
  IF entries[i].id \in DOMAIN torquejobs THEN joblist[TargetIndex] ELSE NewJob

\* the entry dispatched last reached Job.update of record k
LastUpdated(k) ==
  /\ pc = "dispatch"
  /\ i > 1
  /\ Dispatched(entries[i - 1])
  /\ entries[i - 1].id \in DOMAIN torquejobs
  /\ torquejobs[entries[i - 1].id] + 1 = k

\* C1: once the status of a job is 'E', a call of Job.update with an event
\* of any status leaves every field of the record other than statuslog and
\* statusstring unchanged.
C1_EndedKeepsFields ==
  [][\A k \in DOMAIN joblist :
       AtEntry /\ joblist[k].status = "E"
         => NonHistory(joblist'[k]) = NonHistory(joblist[k])]_vars

\* an ended job has received a later event of another status
C1_Witness ==
  \E k \in DOMAIN joblist :
    /\ LastUpdated(k)
    /\ joblist[k].status = "E"
    /\ entries[i - 1].code # "E"

\* C2: Job.update of a started job (status 'S') with a 'Q' event adds the
\* event to statuslog and statusstring and leaves the status and every
\* other field unchanged.
C2_QueuedAfterStarted ==
  [][AtUpdate /\ entries[i].code = "Q" /\ TargetJob.status = "S"
       => /\ NonHistory(joblist'[TargetIndex]) = NonHistory(TargetJob)
          /\ joblist'[TargetIndex].status = "S"
          /\ joblist'[TargetIndex].statusstring = TargetJob.statusstring \o "Q"
          /\ joblist'[TargetIndex].statuslog =
               DictSet(TargetJob.statuslog, entries[i].ts, "Q")]_vars

\* a started job has received a 'Q' event
C2_Witness ==
  \E k \in DOMAIN joblist :
    /\ LastUpdated(k)
    /\ joblist[k].status = "S"
    /\ entries[i - 1].code = "Q"

\* C3 as stated: once the status of a job is 'E', 'D' or 'A', no later event
\* (here: none that Job.parse handles without an exception) changes its
\* status or any field other than statuslog and statusstring.
C3_TerminalAbsorbing ==
  [][\A k \in DOMAIN joblist :
       /\ AtEntry /\ joblist[k].status \in {"E", "D", "A"}
       /\ AtUpdate => update(TargetJob, entries[i]).exc = ""
       => NonHistory(joblist'[k]) = NonHistory(joblist[k])]_vars

\* C3 as amended: only 'E' is absorbing.  Once the status of a job is 'E' no
\* later event changes its status or any field other than statuslog and
\* statusstring; an event dispatched to a job whose status is 'D' or 'A' is
\* parsed like any other and the status becomes the status code of the event.
C3_OnlyEndedAbsorbing ==
  [][AtUpdate
       => /\ TargetJob.status = "E"
               => NonHistory(joblist'[TargetIndex]) = NonHistory(TargetJob)
          /\ TargetJob.status \in {"D", "A"}
               => joblist'[TargetIndex].status = entries[i].code]_vars

\* a deleted job has been queued again by a later event
C3_Witness ==
  \E k \in DOMAIN joblist :
    /\ LastUpdated(k)
    /\ joblist[k].statusstring = "DQ"
    /\ joblist[k].status = "Q"

\* C4: the entries are dispatched in the order of their timestamps, and two
\* entries of one job with the same timestamp reach Job.update in the order
\* in which they were read.
C4_TiesInInputOrder ==
  pc = "dispatch" =>
    \A a, b \in DOMAIN entries :
      a < b =>
        /\ entries[a].ts <= entries[b].ts
        /\ ( /\ entries[a].ts = entries[b].ts
             /\ Dispatched(entries[a]) /\ Dispatched(entries[b])
             /\ entries[a].id = entries[b].id )
             => entries[a].seq < entries[b].seq

\* C5: a line of one or two fields is skipped in either filter mode: reading
\* it does not end the run, and its entry creates and changes no Job record
\* and leaves the dispatch loop running.
C5_ShortLineSkipped ==
  [][/\ pc = "read" /\ nread' = nread + 1 /\ line'.n < 3
          => pc' = "read" /\ UNCHANGED <<torquejobs, joblist, njobs>>
     /\ AtEntry /\ entries[i].n < 3
          => /\ pc' = "dispatch" /\ i' = i + 1
             /\ UNCHANGED <<torquejobs, joblist, njobs>>]_vars

\* C6: when the payload of an event fails to parse inside Job.parse, the run
\* goes on with the next event, the status of the job becomes the status
\* code of the event, every other field of the job keeps its value, and no
\* other record is changed.
C6_ParseFailureLocal ==
  [][AtUpdate /\ update(TargetJob, entries[i]).exc # ""
       => /\ pc' = "dispatch" /\ i' = i + 1
          /\ joblist'[TargetIndex].status = entries[i].code
          /\ Resources(joblist'[TargetIndex]) = Resources(TargetJob)
          /\ \A k \in DOMAIN joblist :
               k # TargetIndex => joblist'[k] = joblist[k]]_vars

\* the node usage table has been produced
NodeUsageDone == pc \in {"users", "done", "TypeError"}

\* C7: when no job has status 'E' after the dispatch of all events, the node
\* usage step does not produce a node usage table as a successful result.
C7_NoTableWithoutEnded ==
  NodeUsageDone => \E k \in DOMAIN joblist : joblist[k].status = "E"

\* the run has not been ended by an exception
Running == pc \in {"read", "dispatch", "nodes", "users", "done"}

\* C8: in every state of a run a record whose status is not 'E' has an empty
\* usage mapping, and a record whose status is 'E' has a usage entry for
\* every node of its allocation mapping.
C8_UsageIffEnded ==
  Running =>
    \A k \in DOMAIN joblist :
      /\ joblist[k].status # "E" => joblist[k].usage = <<>>
      /\ joblist[k].status = "E"
           => DOMAIN joblist[k].nodes \subseteq DOMAIN joblist[k].usage

\* C9: when an 'E' event is applied to a job that has not ended and the run
\* goes on, then usage[n] = nodes[n] * ruwalltime for every node n of the
\* allocation mapping, and usage has no other key.
C9_UsageIsCoresTimesWalltime ==
  [][AtUpdate /\ entries[i].code = "E" /\ TargetJob.status # "E"
       /\ pc' = "dispatch"
       => joblist'[TargetIndex].usage =
            [n \in DOMAIN joblist'[TargetIndex].nodes |->
               joblist'[TargetIndex].nodes[n]
                 * joblist'[TargetIndex].ruwalltime]]_vars

\* the names of the nodes of the messages
NodeNames == {"nodeA", "nodeB"}

\* sum of usage[node] over the ended jobs among the first n of joblist
RECURSIVE SumEnded(_, _)
SumEnded(node, n) ==
  IF n = 0 THEN 0
  ELSE SumEnded(node, n - 1)
         + (IF joblist[n].status = "E" THEN Get(joblist[n].usage, node, 0)
            ELSE 0)

\* C10: the node usage total of every node is the sum of usage[node] over
\* the jobs whose final status is 'E', and no other node has a total; a job
\* whose final status is not 'E' contributes nothing.
C10_NodeUsageSumsEndedJobs ==
  NodeUsageDone =>
    /\ DOMAIN nodeusage \subseteq NodeNames
    /\ \A node \in NodeNames :
         Get(nodeusage, node, 0) = SumEnded(node, Len(joblist))
    /\ \A node \in DOMAIN nodeusage :
         \E k \in DOMAIN joblist :
           joblist[k].status = "E" /\ node \in DOMAIN joblist[k].usage

\* the table has been produced from an ended job and from a job that holds
\* nodes and has not ended
C10_Witness ==
  /\ pc = "done"
  /\ nodeusage # <<>>
  /\ \E k \in DOMAIN joblist :
       joblist[k].status # "E" /\ joblist[k].nodes # <<>>

\* cpu seconds used by, and core-seconds requested by, the jobs of a user
\* among the first n records of joblist
RECURSIVE SumUsed(_, _)
SumUsed(user, n) ==
  IF n = 0 THEN 0
  ELSE SumUsed(user, n - 1)
       + (IF joblist[n].user = user THEN joblist[n].rucputime ELSE 0)

RECURSIVE SumReq(_, _)
SumReq(user, n) ==
  IF n = 0 THEN 0
  ELSE SumReq(user, n - 1)
       + (IF joblist[n].user = user
          THEN joblist[n].reqcpus * joblist[n].ruwalltime ELSE 0)

\* C11: when the users file has been written, userdict has one record per
\* user of the job list, holding the sum of rucputime and the sum of
\* reqcpus * ruwalltime of the user's jobs, whatever their status; each user
\* has one row, and its percentage is 100 * used / requested, 0 when the
\* requested core-seconds are 0.
C11_UserSums ==
  pc = "done" =>
    LET n == Len(joblist)
    IN  /\ DOMAIN userdict = {joblist[k].user : k \in 1..n}
        /\ \A u \in DOMAIN userdict :
             /\ userdict[u].usedcpuseconds = SumUsed(u, n)
             /\ userdict[u].reqcpuseconds = SumReq(u, n)
             /\ Cardinality({k \in DOMAIN billing : billing[k].user = u}) = 1
        /\ \A k \in DOMAIN billing :
             LET used == SumUsed(billing[k].user, n)
                 req  == SumReq(billing[k].user, n)
                 pct  == billing[k].pct
             IN  IF req = 0 THEN pct.num = 0
                 ELSE pct.num * req = 100 * used * pct.den

\* a user with two jobs, one of them ended, has been billed
C11_Witness ==
  /\ pc = "done"
  /\ \E k \in DOMAIN billing :
       /\ billing[k].pct.num > 0
       /\ Cardinality({j \in DOMAIN joblist :
                         joblist[j].user = billing[k].user}) = 2

\* the entries the dispatch loop is through with: those before entries[i],
\* and entries[i] too when the run ended in its Job.update
Handled ==
  IF pc = "read" THEN 0
  ELSE IF pc = "ValueError" /\ joblist # <<>> THEN i
  ELSE i - 1

\* the status codes, in the order of entries, of the first n entries that
\* have the job identifier id and a status code outside skip
RECURSIVE CodesOf(_, _, _)
CodesOf(id, skip, n) ==
  IF n = 0 THEN ""
  ELSE CodesOf(id, skip, n - 1)
       \o (IF entries[n].n >= 3 /\ entries[n].id = id
              /\ entries[n].code \notin skip
           THEN entries[n].code ELSE "")

\* C12: entries with status code 'L', 'C' or 'T' never reach Job.update and
\* never create a record: no record has such a status or such a code in its
\* statuslog, the statusstring of a record is made of the codes of the other
\* entries of its job, and every key of torquejobs is the job identifier of
\* an entry with another code.
C12_LicenseCheckpointContinueSkipped ==
  /\ \A k \in DOMAIN joblist :
       /\ joblist[k].status \notin {"L", "C", "T"}
       /\ \A ts \in DOMAIN joblist[k].statuslog :
            joblist[k].statuslog[ts] \notin {"L", "C", "T"}
       /\ joblist[k].statusstring
            = CodesOf(joblist[k].jobid, {"L", "C", "T"}, Handled)
  /\ \A id \in DOMAIN torquejobs :
       \E k \in DOMAIN entries :
         entries[k].id = id /\ entries[k].code \notin {"L", "C", "T"}
  /\ Len(joblist) = Cardinality(DOMAIN torquejobs)

\* the loop is through a licensing entry, a checkpoint or continue entry of a
\* job and another entry of that job
C12_Witness ==
  /\ pc = "dispatch"
  /\ i > Len(entries)
  /\ \E a, b, c \in DOMAIN entries :
       /\ entries[a].code = "L"
       /\ entries[b].code \in {"C", "T"}
       /\ entries[c].id = entries[b].id
       /\ entries[c].id \in DOMAIN torquejobs

\* the string of n times 'E'
RECURSIVE Es(_)
Es(n) == IF n = 0 THEN "" ELSE Es(n - 1) \o "E"

\* C13: without --full every entry whose status code is not 'E' is dropped
\* while the lines are read: entries holds 'E' entries only, so no record is
\* created from another one, and every record has status 'E', a statuslog
\* of 'E' values and a statusstring of one 'E' per entry of its job handled.
C13_EndedOnlyFilter ==
  ~full =>
    /\ \A k \in DOMAIN entries : entries[k].code = "E"
    /\ \A k \in DOMAIN joblist :
         /\ joblist[k].status = "E"
         /\ joblist[k].statuslog # <<>>
         /\ \A ts \in DOMAIN joblist[k].statuslog :
              joblist[k].statuslog[ts] = "E"
         /\ joblist[k].statusstring
              \in {Es(n) : n \in 1..Cardinality({e \in DOMAIN entries :
                                   entries[e].id = joblist[k].jobid})}

\* without --full the last line read was a queue entry, and the loop over
\* the entries has made a record
C13_Witness ==
  /\ ~full
  /\ line.code = "Q"
  /\ pc = "dispatch"
  /\ i > Len(entries)
  /\ joblist # <<>>

\* the entries of job id among entries
EventsOf(id) ==
  {entries[k] : k \in {m \in DOMAIN entries :
                         entries[m].n >= 3 /\ entries[m].id = id}}

\* the record Job.update makes of job when the entries of the set evs are
\* applied to it in ascending order of their timestamps
RECURSIVE Replay(_, _)
Replay(job, evs) ==
  IF evs = {} THEN job
  ELSE LET e == CHOOSE x \in evs : \A y \in evs : x.ts <= y.ts
       IN  Replay(IF Dispatched(e) THEN update(job, e).job ELSE job,
                  evs \ {e})

\* C14: when all entries are dispatched, the record of a job whose entries
\* have pairwise distinct timestamps is the one made by applying the entries
\* in ascending order of their timestamps, whatever the order of the lines
\* in the input was (Q@1, S@3 and then Q@2 give the record of Q@1, Q@2, S@3).
C14_InputOrderIrrelevant ==
  (pc = "dispatch" /\ i > Len(entries)) =>
    \A id \in DOMAIN torquejobs :
      (\A a, b \in EventsOf(id) : a # b => a.ts # b.ts)
        => joblist[torquejobs[id] + 1] = Replay(NewJob, EventsOf(id))

\* Q@1, S@3 and Q@2 of one job were read in this order and are dispatched
C14_Witness ==
  /\ pc = "dispatch"
  /\ i > Len(entries)
  /\ \E a, b, c \in DOMAIN entries :
       /\ entries[a].id = entries[b].id /\ entries[b].id = entries[c].id
       /\ entries[a].code = "Q" /\ entries[a].ts = 1 /\ entries[a].seq = 1
       /\ entries[b].code = "S" /\ entries[b].ts = 3 /\ entries[b].seq = 2
       /\ entries[c].code = "Q" /\ entries[c].ts = 2 /\ entries[c].seq = 3
       /\ joblist[torquejobs[entries[a].id] + 1].status = "S"
       /\ joblist[torquejobs[entries[a].id] + 1].statusstring = "QQS"

\* C15: the statuslog of a record only grows: every entry that reaches
\* Job.update adds one element to the statuslog of its record, and every
\* element the statuslog had before is still there with its value, also when
\* the entry has the timestamp of an earlier entry of the job.
C15_StatuslogAppendOnly ==
  [][AtUpdate =>
       LET old == TargetJob.statuslog
           new == joblist'[TargetIndex].statuslog
       IN  /\ Cardinality(DOMAIN new) = Cardinality(DOMAIN old) + 1
           /\ \A ts \in DOMAIN old : ts \in DOMAIN new /\ new[ts] = old[ts]]_vars

\* C16: an entry that is applied (the status of its record is not 'E', and
\* the entry is no 'Q' for a started job) and parsed without an exception
\* leaves the record with the fields, other than the history, that parsing
\* the entry alone gives: the fields do not depend on earlier entries.
C16_FieldsFromLastEvent ==
  [][( /\ AtUpdate
       /\ TargetJob.status # "E"
       /\ ~(TargetJob.status = "S" /\ entries[i].code = "Q")
       /\ parse(NewJob, entries[i]).exc = "" )
       => NonHistory(joblist'[TargetIndex])
            = NonHistory(parse(NewJob, entries[i]).job)]_vars

\* C17: while the run goes on, reqnodes of every record is the number of
\* keys of its nodes.
C17_ReqnodesCountsNodes ==
  Running =>
    \A k \in DOMAIN joblist :
      joblist[k].reqnodes = Cardinality(DOMAIN joblist[k].nodes)

\* the job identifiers of the entries that have reached Job.update, and the
\* position in entries of the first such entry of a job
SeenIds ==
  {entries[k].id : k \in {m \in 1..Handled : Dispatched(entries[m])}}

FirstEntry(id) ==
  CHOOSE k \in 1..Handled :
    /\ Dispatched(entries[k]) /\ entries[k].id = id
    /\ \A m \in 1..(k - 1) : ~(Dispatched(entries[m]) /\ entries[m].id = id)

\* C18: in the dispatch loop the keys of torquejobs are the job identifiers
\* of the entries that have reached Job.update, torquejobs maps them one to
\* one onto the indices 0..len(joblist)-1, the index of a job is the number
\* of jobs first seen before it (its record was made on its first entry and
\* not since), and the record at that index has the key as jobid.
C18_OneRecordPerJob ==
  pc \in {"dispatch", "ValueError"} =>
    /\ DOMAIN torquejobs = SeenIds
    /\ {torquejobs[id] : id \in SeenIds} = 0..(Len(joblist) - 1)
    /\ Cardinality(SeenIds) = Len(joblist)
    /\ njobs = Len(joblist) - 1
    /\ \A id \in SeenIds :
         /\ joblist[torquejobs[id] + 1].jobid = id
         /\ torquejobs[id]
              = Cardinality({o \in SeenIds : FirstEntry(o) < FirstEntry(id)})

\* two jobs have a record, and the loop is through a second entry of the job
\* that was seen first
C18_Witness ==
  /\ pc = "dispatch"
  /\ i > Len(entries)
  /\ Len(joblist) = 2
  /\ \E a, b, c \in DOMAIN entries :
       /\ a < b /\ b < c
       /\ Dispatched(entries[a]) /\ Dispatched(entries[b]) /\ Dispatched(entries[c])
       /\ entries[a].id = entries[c].id
       /\ entries[a].id # entries[b].id

\* the text of resources_used.walltime that hms2sec is called with when
\* entries[i] is parsed
WalltimeText ==
  Get(JobDict[MsgOf(entries[i])], "resources_used.walltime", <<"00", "00", "00">>)

\* C19: when an applied entry is parsed, hms2sec gives ruwalltime the value
\* hours * 3600 + minutes * 60 + seconds of a well-formed walltime, and 0,
\* raising nothing, of a malformed one: the run goes on with the next entry.
C19_Hms2secTotal ==
  [][( /\ AtUpdate
       /\ TargetJob.status # "E"
       /\ ~(TargetJob.status = "S" /\ entries[i].code = "Q") )
       => IF HmsOk(WalltimeText)
          THEN parse(NewJob, entries[i]).exc = ""
                 => joblist'[TargetIndex].ruwalltime
                      = IntOf[WalltimeText[1]] * 3600
                        + IntOf[WalltimeText[2]] * 60
                        + IntOf[WalltimeText[3]]
          ELSE /\ pc' = "dispatch"
               /\ joblist'[TargetIndex].ruwalltime = 0]_vars

\* the node and slot tokens of exec_host in the message of entries[i], the
\* empty segments discarded
HostTokens == NodeList(JobDict[MsgOf(entries[i])])

\* the slot indices listed for node in a list of alternating node and slot
\* tokens
SlotsOf(toks, node) ==
  {toks[2 * k] : k \in {m \in 1..(Len(toks) \div 2) : toks[2 * m - 1] = node}}

\* C20: when an applied entry whose exec_host is a list of node/slot tokens
\* is parsed, the keys of nodes are the node names of the tokens, and the
\* value of a node is the number of distinct slot indices listed for it.
C20_NodesCountDistinctSlots ==
  [][( /\ AtUpdate
       /\ TargetJob.status # "E"
       /\ ~(TargetJob.status = "S" /\ entries[i].code = "Q")
       /\ Len(HostTokens) % 2 = 0 )
       => LET names == {HostTokens[2 * k - 1] : k \in 1..(Len(HostTokens) \div 2)}
              new   == joblist'[TargetIndex].nodes
          IN  /\ DOMAIN new = names
              /\ \A n \in names :
                   new[n] = Cardinality(SlotsOf(HostTokens, n))]_vars
====
